---- MODULE Spec2Model ----
(***************************************************************************)
(* The CSV ingestion pipeline of src/app.py, in three specifications:      *)
(* Spec       - one call of one of the four loaders                        *)
(*              load_and_process_ring_data (CO2),                          *)
(*              load_and_process_ring4_temp_rh_data (T/RH),                *)
(*              load_and_process_ring5_rain_data (rain) and                *)
(*              load_and_process_ring2_wind_data (wind);                   *)
(* SpecApp    - the runs of main() up to its call of                       *)
(*              download_and_load_all_data, with the st.cache_data store,  *)
(*              the Refresh Data button and the downloads;                 *)
(* SpecRender - what main() renders from the tuple that call returned.     *)
(*                                                                         *)
(* A file on disk is either zero-length or a metadata line, a header row   *)
(* and data rows; a cell is the text read_csv sees ("" is an empty cell,   *)
(* which pandas reads as NaN).  Timestamps are minutes after               *)
(* 2024-01-01 00:00; NaT and NaN are the values errors='coerce' yields.    *)
(* A loader call ends by returning a DataFrame, returning None, or raising *)
(* the exception the Python code raises at that point.                     *)
(*                                                                         *)
(* Files that are not zero-length always hold the metadata line and a      *)
(* header row, and a timestamp cell always holds text; column names are    *)
(* unique and the first timestamp column of a header is named TIMESTAMP.   *)
(***************************************************************************)
EXTENDS Integers, Sequences, FiniteSets, TLC

VARIABLES disk, call, pc, result, cache, session_state, frame, log, widgets, page

vars == <<disk, call, pc, result, cache, session_state, frame, log, widgets, page>>

\* Scope of the inputs: historical files per call, data rows per file.
MaxHist == 2
MaxRows == 1

Loaders == {"co2", "trh", "rain", "wind"}

(***************************************************************************)
(* Text conversions, as tables over the strings that occur in the files.   *)
(***************************************************************************)
NaT == -1
NaN == -1

\* "timestamp" in col.lower()
ContainsTimestamp(col) == col \in {"TIMESTAMP", "Timestamp_UTC"}

\* Series.str.match(r'\d{4}-\d{2}-\d{2}.*', na=False)
str_match(s) == s \in {"2024-13-45 00:00", "2024-01-01 00:00", "2024-01-01 00:05"}

\* pd.to_datetime(..., errors='coerce')
to_datetime(s) ==
    CASE s = "2024-01-01 00:00" -> 0
      [] s = "2024-01-01 00:05" -> 5
      [] OTHER -> NaT

\* pd.to_numeric(..., errors='coerce')
to_numeric(s) ==
    CASE s = "400" -> 400
      [] s = "410" -> 410
      [] s = "55" -> 55
      [] OTHER -> NaN

\* an empty cell is NaN as read; any text is not
isna(s) == s = ""

get_co2_type_without_ring_6(ring_name) ==
    IF ring_name \in {"Ring_1", "Ring_3"} THEN "aCO2" ELSE "eCO2"

get_co2_type(ring_name) ==
    IF ring_name \in {"Ring_1", "Ring_3", "Ring_6"} THEN "aCO2" ELSE "eCO2"

(***************************************************************************)
(* The disk.                                                               *)
(***************************************************************************)
EmptyFile == [empty |-> TRUE, header |-> <<>>, rows |-> <<>>]

Csv(header, rows) == [empty |-> FALSE, header |-> header, rows |-> rows]

exists(d, path) == path \in DOMAIN d

\* os.path.getsize of an existing file: the metadata line, the header, the rows
getsize(d, path) == IF d[path].empty THEN 0 ELSE 2 + Len(d[path].rows)

(***************************************************************************)
(* What differs between the four loaders.                                  *)
(***************************************************************************)
MeasureColumns(loader) ==
    CASE loader = "co2" -> <<"CO2_Avg">>
      [] loader = "trh" -> <<"T_Air_Avg", "RH_Avg">>
      [] loader = "rain" -> <<"Rain_p_Tot">>
      [] loader = "wind" -> <<"Speed_WVc(1)", "Speed_WVc(2)">>

\* The CO2 loader indexes df[['TIMESTAMP', 'CO2_Avg']] without a test; the
\* other three test that their columns are present.
TestsColumns(loader) == loader # "co2"

\* The path whose size the recent-file check reads: recent_path in the CO2 and
\* wind loaders, the loop variable `path` in the T/RH and rain loaders.
SizeCheckUsesLoopPath(loader) == loader \in {"trh", "rain"}

\* `if len(all_dfs) == 0: return None` stands in the T/RH, rain and wind
\* loaders only.
TestsEmptyList(loader) == loader # "co2"

\* dropna runs on the cells as read and to_numeric after it, except for the
\* recent file of the T/RH, rain and wind loaders (to_numeric, then dropna).
DropnaBeforeCoerce(loader, role) == loader = "co2" \/ role = "historical"

NormalizedRow(loader, ring_name, t, v) ==
    CASE loader = "co2" ->
           [TIMESTAMP |-> t, CO2_Avg |-> v[1], Rings |-> ring_name,
            CO2 |-> get_co2_type(ring_name)]
      [] loader = "trh" -> [TIMESTAMP |-> t, T_C |-> v[1], RH |-> v[2]]
      [] loader = "rain" -> [TIMESTAMP |-> t, Rain_mm |-> v[1]]
      [] loader = "wind" -> [TIMESTAMP |-> t, Wind_Speed |-> v[1], Wind_Dir |-> v[2]]

\* The measurement values of a normalized row, in MeasureColumns order.
Measures(loader, r) ==
    CASE loader = "co2" -> <<r.CO2_Avg>>
      [] loader = "trh" -> <<r.T_C, r.RH>>
      [] loader = "rain" -> <<r.Rain_mm>>
      [] loader = "wind" -> <<r.Wind_Speed, r.Wind_Dir>>

(***************************************************************************)
(* One file.                                                               *)
(***************************************************************************)
ColumnIndex(header, name) ==
    IF \E i \in 1..Len(header) : header[i] = name
    THEN CHOOSE i \in 1..Len(header) :
            header[i] = name /\ \A j \in 1..(i - 1) : header[j] # name
    ELSE 0

HasColumns(header, names) ==
    \A k \in 1..Len(names) : ColumnIndex(header, names[k]) # 0

timestamp_col_last(header) ==
    IF \E i \in 1..Len(header) : ContainsTimestamp(header[i])
    THEN CHOOSE i \in 1..Len(header) :
            ContainsTimestamp(header[i])
            /\ \A j \in (i + 1)..Len(header) : ~ContainsTimestamp(header[j])
    ELSE 0

\* next((col for col in df.columns if "timestamp" in col.lower()), None):
\* the first such column, 0 for None
timestamp_col(header) ==
    IF \E i \in 1..Len(header) : ContainsTimestamp(header[i])
    THEN CHOOSE i \in 1..Len(header) :
            ContainsTimestamp(header[i])
            /\ \A j \in 1..(i - 1) : ~ContainsTimestamp(header[j])
    ELSE 0

\* The frame a file with a timestamp column tc and all measurement columns
\* contributes: the str.match filter, to_datetime, then dropna and to_numeric
\* in the order the branch applies them.
Normalize(loader, ring_name, role, f, tc) ==
    LET cols == MeasureColumns(loader)
        idx == [k \in 1..Len(cols) |-> ColumnIndex(f.header, cols[k])]
        Matches(r) == str_match(r[tc])
        RawPresent(r) == \A k \in 1..Len(cols) : ~isna(r[idx[k]])
        matched == SelectSeq(f.rows, Matches)
        kept == IF DropnaBeforeCoerce(loader, role)
                THEN SelectSeq(matched, RawPresent) ELSE matched
        conv == [i \in 1..Len(kept) |->
                    NormalizedRow(loader, ring_name, to_datetime(kept[i][tc]),
                        [k \in 1..Len(cols) |-> to_numeric(kept[i][idx[k]])])]
        NumPresent(r) == \A k \in 1..Len(cols) : Measures(loader, r)[k] # NaN
    IN  IF DropnaBeforeCoerce(loader, role) THEN conv ELSE SelectSeq(conv, NumPresent)

Continue == [kind |-> "continue", df |-> <<>>, exc |-> ""]
Appended(df) == [kind |-> "append", df |-> df, exc |-> ""]
Raise(exc) == [kind |-> "raise", df |-> <<>>, exc |-> exc]
ReturnNone == [kind |-> "None", df |-> <<>>, exc |-> ""]
ReturnFrame(df) == [kind |-> "DataFrame", df |-> df, exc |-> ""]

\* One iteration of `for path in historical_paths`.
HistoricalStep(loader, ring_name, d, path) ==
    IF ~exists(d, path) \/ getsize(d, path) = 0 THEN Continue
    ELSE LET f == d[path]
             tc == timestamp_col(f.header)
         IN  IF tc = 0 THEN Continue
             ELSE IF ~HasColumns(f.header, MeasureColumns(loader))
                  THEN IF TestsColumns(loader) THEN Continue ELSE Raise("KeyError")
                  ELSE Appended(Normalize(loader, ring_name, "historical", f, tc))

RECURSIVE HistoricalLoop(_, _, _, _, _)
HistoricalLoop(loader, ring_name, d, paths, all_dfs) ==
    IF paths = <<>> THEN [kind |-> "done", all_dfs |-> all_dfs, exc |-> ""]
    ELSE LET s == HistoricalStep(loader, ring_name, d, Head(paths))
         IN  CASE s.kind = "raise" ->
                    [kind |-> "raise", all_dfs |-> all_dfs, exc |-> s.exc]
               [] s.kind = "continue" ->
                    HistoricalLoop(loader, ring_name, d, Tail(paths), all_dfs)
               [] s.kind = "append" ->
                    HistoricalLoop(loader, ring_name, d, Tail(paths),
                                   Append(all_dfs, s.df))

\* `if not os.path.exists(recent_path) or os.path.getsize(...) == 0: return None`
RecentCheck(loader, d, historical_paths, recent_path) ==
    IF ~exists(d, recent_path) THEN "return None"
    ELSE IF ~SizeCheckUsesLoopPath(loader)
         THEN IF getsize(d, recent_path) = 0 THEN "return None" ELSE "proceed"
         ELSE IF historical_paths = <<>> THEN "UnboundLocalError"
              ELSE LET path == historical_paths[Len(historical_paths)]
                   IN  IF ~exists(d, path) THEN "FileNotFoundError"
                       ELSE IF getsize(d, path) = 0 THEN "return None"
                       ELSE "proceed"

RecentStep_continue_without_timestamp(loader, ring_name, d, recent_path) ==
    LET f == d[recent_path]
        tc == timestamp_col(f.header)
    IN  IF f.empty THEN Raise("EmptyDataError")
        ELSE IF tc = 0 THEN Appended(<<>>)
        ELSE IF ~HasColumns(f.header, MeasureColumns(loader))
             THEN IF TestsColumns(loader) THEN ReturnNone ELSE Raise("KeyError")
             ELSE Appended(Normalize(loader, ring_name, "recent", f, tc))

\* The recent file, once the check has let it through.
RecentStep(loader, ring_name, d, recent_path) ==
    LET f == d[recent_path]
        tc == timestamp_col(f.header)
    IN  IF f.empty THEN Raise("EmptyDataError")
        ELSE IF tc = 0 THEN ReturnNone
        ELSE IF ~HasColumns(f.header, MeasureColumns(loader))
             THEN IF TestsColumns(loader) THEN ReturnNone ELSE Raise("KeyError")
             ELSE Appended(Normalize(loader, ring_name, "recent", f, tc))

(***************************************************************************)
(* Combination.                                                            *)
(***************************************************************************)
RECURSIVE concat(_)
concat(dfs) == IF dfs = <<>> THEN <<>> ELSE Head(dfs) \o concat(Tail(dfs))

RECURSIVE DropSeen(_, _)
DropSeen(df, seen) ==
    IF df = <<>> THEN <<>>
    ELSE IF Head(df).TIMESTAMP \in seen THEN DropSeen(Tail(df), seen)
         ELSE <<Head(df)>> \o DropSeen(Tail(df), seen \cup {Head(df).TIMESTAMP})

Reverse(s) == [i \in 1..Len(s) |-> s[Len(s) + 1 - i]]

drop_duplicates_keep_last(df) == Reverse(DropSeen(Reverse(df), {}))

drop_duplicates_none(df) == df

\* DataFrame.drop_duplicates(subset='TIMESTAMP', keep='first'); NaT equals NaT
drop_duplicates(df) == DropSeen(df, {})

(***************************************************************************)
(* The loaders.                                                            *)
(***************************************************************************)
LoadAndProcess(loader, ring_name, d, historical_paths, recent_path) ==
    LET h == HistoricalLoop(loader, ring_name, d, historical_paths, <<>>)
    IN  IF h.kind = "raise" THEN Raise(h.exc)
        ELSE LET c == RecentCheck(loader, d, historical_paths, recent_path)
             IN  IF c = "return None" THEN ReturnNone
                 ELSE IF c # "proceed" THEN Raise(c)
                 ELSE LET r == RecentStep(loader, ring_name, d, recent_path)
                      IN  IF r.kind # "append" THEN r
                          ELSE LET all_dfs == Append(h.all_dfs, r.df)
                               IN  IF TestsEmptyList(loader) /\ Len(all_dfs) = 0
                                   THEN ReturnNone
                                   ELSE ReturnFrame(drop_duplicates(concat(all_dfs)))

load_and_process_ring_data(ring_name, d, historical_paths, recent_path) ==
    LoadAndProcess("co2", ring_name, d, historical_paths, recent_path)

load_and_process_ring4_temp_rh_data(d, historical_paths, recent_path) ==
    LoadAndProcess("trh", "Ring_4", d, historical_paths, recent_path)

load_and_process_ring5_rain_data(d, historical_paths, recent_path) ==
    LoadAndProcess("rain", "Ring_5", d, historical_paths, recent_path)

load_and_process_ring2_wind_data(d, historical_paths, recent_path) ==
    LoadAndProcess("wind", "Ring_2", d, historical_paths, recent_path)

(***************************************************************************)
(* The inputs of a call.  Two families of bounded inputs are explored:     *)
(* file scope - up to MaxHist historical files plus the recent file, each  *)
(*   missing, zero-length, or one of the sample files of every header      *)
(*   shape;                                                                *)
(* row scope - one historical and one recent file, both well-formed, each  *)
(*   with up to MaxRows rows over every timestamp text and cell text.      *)
(***************************************************************************)
HistPath(i) == <<"historical", i>>
RecentPath == <<"recent", 0>>

HistPaths(n) == [i \in 1..n |-> HistPath(i - 1)]

\* A text the pattern rejects, one it accepts that is no date, and a date.
TsStrings == {"garbage", "2024-13-45 00:00", "2024-01-01 00:00"}

MeasureCells(loader) ==
    IF Len(MeasureColumns(loader)) = 1
    THEN {<<"">>, <<"not_a_number">>, <<"400">>, <<"410">>}
    ELSE {<<"400", "55">>, <<"410", "55">>, <<"", "55">>, <<"400", "not_a_number">>}

FullHeader(loader) == <<"TIMESTAMP">> \o MeasureColumns(loader)
NoTimestampHeader(loader) == <<"RECORD">> \o MeasureColumns(loader)
PartialHeader(loader) ==
    IF Len(MeasureColumns(loader)) = 1 THEN <<"TIMESTAMP", "RECORD">>
    ELSE <<"TIMESTAMP", MeasureColumns(loader)[1]>>
TwoTimestampHeader(loader) == <<"TIMESTAMP", "Timestamp_UTC">> \o MeasureColumns(loader)

GoodCells(loader) ==
    IF Len(MeasureColumns(loader)) = 1 THEN {<<"400">>, <<"410">>}
    ELSE {<<"400", "55">>, <<"410", "55">>}

SeqsUpTo(S, n) == UNION {[1..k -> S] : k \in 0..n}

SampleFiles(loader) ==
    {EmptyFile}
    \cup {Csv(FullHeader(loader), <<>>)}
    \cup {Csv(FullHeader(loader), <<(<<"2024-01-01 00:00">> \o m)>>) : m \in GoodCells(loader)}
    \cup {Csv(FullHeader(loader), <<(<<"2024-01-01 00:05">> \o m)>>) : m \in GoodCells(loader)}
    \cup {Csv(NoTimestampHeader(loader), <<(<<"1">> \o m)>>) : m \in GoodCells(loader)}
    \cup {Csv(PartialHeader(loader), <<(<<"2024-01-01 00:00", "400">>)>>)}
    \cup {Csv(TwoTimestampHeader(loader),
              <<(<<"2024-01-01 00:00", "2024-01-01 00:05">> \o m)>>) : m \in GoodCells(loader)}

RowFiles(loader) ==
    {Csv(FullHeader(loader), rows) :
        rows \in SeqsUpTo({<<ts>> \o m : ts \in TsStrings, m \in MeasureCells(loader)},
                          MaxRows)}

PathSet(n) == {HistPath(i) : i \in 0..(n - 1)} \cup {RecentPath}

FileScopeDisks(loader, n) ==
    UNION {[P -> SampleFiles(loader)] : P \in SUBSET PathSet(n)}

RowScopeDisks(loader) == [PathSet(1) -> RowFiles(loader)]

RingOf(loader) ==
    CASE loader = "co2" -> {"Ring_1", "Ring_2", "Ring_3", "Ring_4", "Ring_5", "Ring_6"}
      [] loader = "trh" -> {"Ring_4"}
      [] loader = "rain" -> {"Ring_5"}
      [] loader = "wind" -> {"Ring_2"}

\* The row scope calls the CO2 loader for one ring: the rows it keeps do not
\* depend on the ring.
RowScopeRing(loader) == IF loader = "co2" THEN "Ring_3" ELSE CHOOSE r \in RingOf(loader) : TRUE

NoResult == [kind |-> "pending", df |-> <<>>, exc |-> ""]

\* st.cache_data holds nothing; no call of download_and_load_all_data is running.
NoEntry == [kind |-> "empty"]
NoFrame == [kind |-> "none"]
NoLog == [kind |-> "none"]
FreshSession == [force_rerun |-> FALSE]
\* No widget has been set and nothing has been rendered.
NoWidgets == [kind |-> "none"]
NoPage == [kind |-> "none"]

Init ==
    /\ pc = "ready"
    /\ result = NoResult
    /\ cache = NoEntry
    /\ session_state = FreshSession
    /\ frame = NoFrame
    /\ log = NoLog
    /\ widgets = NoWidgets
    /\ page = NoPage
    /\ \E loader \in Loaders : \E ring_name \in RingOf(loader) : \E n \in 0..MaxHist :
          /\ call = [loader |-> loader, ring_name |-> ring_name,
                     historical_paths |-> HistPaths(n), recent_path |-> RecentPath]
          /\ \/ disk \in FileScopeDisks(loader, n)
             \/ /\ n = 1
                /\ ring_name = RowScopeRing(loader)
                /\ disk \in RowScopeDisks(loader)

Returned(r) ==
    /\ pc' = "returned"
    /\ result' = r
    /\ UNCHANGED <<disk, call, cache, session_state, frame, log, widgets, page>>

CallRingData ==
    /\ pc = "ready"
    /\ call.loader = "co2"
    /\ Returned(load_and_process_ring_data(call.ring_name, disk,
                    call.historical_paths, call.recent_path))

CallRing4TempRh ==
    /\ pc = "ready"
    /\ call.loader = "trh"
    /\ Returned(load_and_process_ring4_temp_rh_data(disk,
                    call.historical_paths, call.recent_path))

CallRing5Rain ==
    /\ pc = "ready"
    /\ call.loader = "rain"
    /\ Returned(load_and_process_ring5_rain_data(disk,
                    call.historical_paths, call.recent_path))

CallRing2Wind ==
    /\ pc = "ready"
    /\ call.loader = "wind"
    /\ Returned(load_and_process_ring2_wind_data(disk,
                    call.historical_paths, call.recent_path))

Next == CallRingData \/ CallRing4TempRh \/ CallRing5Rain \/ CallRing2Wind

Spec == Init /\ [][Next]_vars

(***************************************************************************)
(* Vocabulary of the properties.                                           *)
(***************************************************************************)
Done == pc = "returned"

AllPaths == {call.historical_paths[i] : i \in 1..Len(call.historical_paths)}
               \cup {call.recent_path}

\* The same call on another disk or with another historical list.
CallOn(d, historical_paths) ==
    LoadAndProcess(call.loader, call.ring_name, d, historical_paths, call.recent_path)

Readable(path) == exists(disk, path) /\ ~disk[path].empty

NoTimestampColumn(f) == \A i \in 1..Len(f.header) : ~ContainsTimestamp(f.header[i])

TimestampColumns(f) == {i \in 1..Len(f.header) : ContainsTimestamp(f.header[i])}

LacksMeasureColumn(f) ==
    \E k \in 1..Len(MeasureColumns(call.loader)) :
        \A i \in 1..Len(f.header) : f.header[i] # MeasureColumns(call.loader)[k]

\* A well-formed file with no data rows: it contributes zero points.
HeaderOnly == Csv(FullHeader(call.loader), <<>>)

RemoveAt(s, i) == [k \in 1..(Len(s) - 1) |-> IF k < i THEN s[k] ELSE s[k + 1]]

\* The rows each file contributes, historical files in input order, then the
\* recent file.
HistoricalRows(i) ==
    HistoricalStep(call.loader, call.ring_name, disk, call.historical_paths[i]).df

RecentRows == RecentStep(call.loader, call.ring_name, disk, call.recent_path).df

SurvivingRows ==
    concat([i \in 1..Len(call.historical_paths) |-> HistoricalRows(i)]) \o RecentRows

FirstOccurrences(rows) ==
    {j \in 1..Len(rows) : \A k \in 1..(j - 1) : rows[k].TIMESTAMP # rows[j].TIMESTAMP}

Nth(S, i) == CHOOSE j \in S : Cardinality({k \in S : k < j}) = i - 1

HasTimestamp(rows, t) == \E j \in 1..Len(rows) : rows[j].TIMESTAMP = t

FirstWith(rows, t) ==
    rows[CHOOSE j \in 1..Len(rows) :
            rows[j].TIMESTAMP = t /\ \A k \in 1..(j - 1) : rows[k].TIMESTAMP # t]

(***************************************************************************)
(* C1: a returned series is the surviving rows of the historical files in  *)
(* input order followed by those of the recent file, deduplicated by       *)
(* timestamp keeping the first occurrence; a timestamp that survives in a  *)
(* historical file and in the recent file has exactly one point, the one   *)
(* of the earliest historical file that contains it.                       *)
(***************************************************************************)
C1_ConcatDedupKeepFirst ==
    (Done /\ result.kind = "DataFrame") =>
        LET rows == SurvivingRows
            keep == FirstOccurrences(rows)
            n == Len(call.historical_paths)
        IN  /\ Len(result.df) = Cardinality(keep)
            /\ \A i \in 1..Len(result.df) : result.df[i] = rows[Nth(keep, i)]
            /\ \A h \in 1..n : \A j \in 1..Len(HistoricalRows(h)) :
                  LET t == HistoricalRows(h)[j].TIMESTAMP
                  IN  (/\ HasTimestamp(RecentRows, t)
                       /\ \A g \in 1..(h - 1) : ~HasTimestamp(HistoricalRows(g), t))
                      => /\ Cardinality({i \in 1..Len(result.df) :
                                            result.df[i].TIMESTAMP = t}) = 1
                         /\ \E i \in 1..Len(result.df) :
                               result.df[i] = FirstWith(HistoricalRows(h), t)

\* Two historical files and the recent file all hold 00:00; the first
\* historical value differs from the later ones and is the one returned.
C1_Witness ==
    /\ Done
    /\ result.kind = "DataFrame"
    /\ Len(call.historical_paths) = 2
    /\ HasTimestamp(HistoricalRows(1), 0)
    /\ HasTimestamp(HistoricalRows(2), 0)
    /\ HasTimestamp(RecentRows, 0)
    /\ FirstWith(HistoricalRows(1), 0) # FirstWith(HistoricalRows(2), 0)
    /\ FirstWith(HistoricalRows(1), 0) # FirstWith(RecentRows, 0)
    /\ result.df = <<FirstWith(HistoricalRows(1), 0)>>

(***************************************************************************)
(* C2: every point of a returned series has a parsed timestamp (not NaT)   *)
(* and a numeric value (not NaN) in every measurement column.              *)
(***************************************************************************)
C2_OnlyParsedPoints ==
    (Done /\ result.kind = "DataFrame") =>
        \A i \in 1..Len(result.df) :
            /\ result.df[i].TIMESTAMP # NaT
            /\ \A k \in 1..Len(MeasureColumns(call.loader)) :
                  Measures(call.loader, result.df[i])[k] # NaN

(***************************************************************************)
(* C3: when the recent file does not exist the call returns None, whatever *)
(* the historical files are.                                               *)
(***************************************************************************)
C3_MissingRecentIsNone ==
    (Done /\ ~exists(disk, call.recent_path)) => result.kind = "None"

(***************************************************************************)
(* C4: the recent-file check answers None exactly when the recent file     *)
(* itself is missing or zero-length, never raises, and does not depend on  *)
(* the historical paths; a zero-length recent file ends the call with None.*)
(***************************************************************************)
C4_RecentCheckReadsRecentFile ==
    (Done /\ HistoricalLoop(call.loader, call.ring_name, disk,
                            call.historical_paths, <<>>).kind = "done") =>
        LET c == RecentCheck(call.loader, disk, call.historical_paths, call.recent_path)
        IN  /\ c \in {"return None", "proceed"}
            /\ (c = "return None") <=> ~Readable(call.recent_path)
            /\ ~Readable(call.recent_path) => result.kind = "None"

\* The points a call hands back: those of the series, none for None.
Points(r) == IF r.kind = "DataFrame" THEN r.df ELSE <<>>

\* r raises only where other raises (and then the same exception) and hands
\* back the same points.
SamePoints(r, other) ==
    IF other.kind = "raise" THEN r = other
    ELSE r.kind # "raise" /\ Points(r) = Points(other)

C6_MissingMeasureColumnIsSkipped ==
    Done =>
        \A p \in AllPaths :
            (Readable(p) /\ ~NoTimestampColumn(disk[p]) /\ LacksMeasureColumn(disk[p]))
                => result = CallOn([disk EXCEPT ![p] = HeaderOnly], call.historical_paths)

(***************************************************************************)
(* C7: a call never returns an empty series; when no row survives it       *)
(* returns None.                                                           *)
(***************************************************************************)
C7_NeverEmptySeries ==
    (Done /\ result.kind = "DataFrame") => Len(result.df) > 0

(***************************************************************************)
(* C8: with a readable recent file, a missing or zero-length historical    *)
(* file is skipped: the call ends as it does with that path removed from   *)
(* the list.                                                               *)
(***************************************************************************)
C8_UnreadableHistoricalIsSkipped ==
    (Done /\ Readable(call.recent_path)) =>
        \A i \in 1..Len(call.historical_paths) :
            ~Readable(call.historical_paths[i])
                => result = CallOn(disk, RemoveAt(call.historical_paths, i))

(***************************************************************************)
(* C9: no two points of a returned series share a timestamp.               *)
(***************************************************************************)
C9_UniqueTimestamps ==
    (Done /\ result.kind = "DataFrame") =>
        \A i, j \in 1..Len(result.df) :
            i # j => result.df[i].TIMESTAMP # result.df[j].TIMESTAMP

\* The files contribute more rows than are returned (a timestamp occurred
\* twice) and two points with different timestamps are returned.
C9_Witness ==
    /\ Done
    /\ result.kind = "DataFrame"
    /\ Len(SurvivingRows) > Len(result.df)
    /\ Len(result.df) >= 2

\* The file without every timestamp column after the first.
FirstTimestampOnly(f) ==
    LET first == CHOOSE i \in TimestampColumns(f) : \A j \in TimestampColumns(f) : i <= j
        keepCols == {i \in 1..Len(f.header) : i = first \/ i \notin TimestampColumns(f)}
        Project(r) == [k \in 1..Cardinality(keepCols) |-> r[Nth(keepCols, k)]]
    IN  Csv(Project(f.header), [i \in 1..Len(f.rows) |-> Project(f.rows[i])])

\* The file with its timestamp columns renamed to a name without "timestamp".
NoTimestampVersion(f) ==
    Csv([i \in 1..Len(f.header) |->
            IF ContainsTimestamp(f.header[i]) THEN "RECORD" ELSE f.header[i]], f.rows)

C11_RingLabelAndCategory ==
    (Done /\ call.loader = "co2" /\ result.kind = "DataFrame") =>
        \A i \in 1..Len(result.df) :
            /\ result.df[i].Rings = call.ring_name
            /\ call.ring_name \in {"Ring_1", "Ring_3", "Ring_6"} => result.df[i].CO2 = "aCO2"
            /\ call.ring_name \in {"Ring_2", "Ring_4", "Ring_5"} => result.df[i].CO2 = "eCO2"

\* Ring_6 is read from a historical and a recent file that disagree on the
\* CO2 value; both points come back labelled Ring_6 and ambient.
C11_Witness ==
    /\ Done
    /\ call.loader = "co2"
    /\ call.ring_name = "Ring_6"
    /\ result.kind = "DataFrame"
    /\ Len(result.df) = 2
    /\ result.df[1].CO2_Avg # result.df[2].CO2_Avg
    /\ \A i \in 1..2 : result.df[i].Rings = "Ring_6" /\ result.df[i].CO2 = "aCO2"

(***************************************************************************)
(* The application: main() up to the call of download_and_load_all_data    *)
(* (what main() renders from the tuple is modelled further down),          *)
(* the st.cache_data store in front of that function, and the function     *)
(* itself, one action per iteration of its loop over drive_links.          *)
(*                                                                         *)
(* gdown.download either saves the remote file under file_name, replacing  *)
(* what was there, or fails: it then returns None or raises, and in both   *)
(* cases leaves the disk as it was.  st.cache_data stores the value a call *)
(* returns under its argument; a call that raises stores nothing.          *)
(* drive_links is the same in every run: one historical URL for Ring_4     *)
(* and for Ring_5, none for the other rings, one recent URL for each.      *)
(***************************************************************************)
\* for ring_num in range(1, 7): the keys of drive_links in insertion order
RingKeys == <<"Ring_1", "Ring_2", "Ring_3", "Ring_4", "Ring_5", "Ring_6">>

drive_links ==
    [ring \in {RingKeys[k] : k \in DOMAIN RingKeys} |->
        [historical |-> IF ring \in {"Ring_4", "Ring_5"} THEN <<"url_historical_0">> ELSE <<>>,
         recent |-> "url_recent"]]

\* f"{ring}_historical_{i}.csv" and f"{ring}_recent.csv"
file_name(ring, i) == <<ring, "historical", i>>
recent_file(ring) == <<ring, "recent", 0>>

historical_files(ring) ==
    [k \in 1..Len(drive_links[ring].historical) |-> file_name(ring, k - 1)]

\* The files of one ring in the order they are downloaded.
RingFiles(ring) == historical_files(ring) \o <<recent_file(ring)>>

AllFiles == UNION {{RingFiles(RingKeys[k])[j] : j \in DOMAIN RingFiles(RingKeys[k])} :
                      k \in DOMAIN RingKeys}

\* What a logger file holds: every measured column, one row.
LoggerHeader ==
    <<"TIMESTAMP", "RECORD", "CO2_Avg", "T_Air_Avg", "RH_Avg", "Rain_p_Tot",
      "Speed_WVc(1)", "Speed_WVc(2)">>

LoggerFile(ts, co2) == Csv(LoggerHeader, <<(<<ts, "1", co2, "55", "55", "55", "55", "55">>)>>)

\* The files a URL can serve: the historical file ends where the recent file
\* starts; the recent file of Ring_3 changes between fetches.
RemoteFiles(path) ==
    IF path[2] = "historical" THEN {LoggerFile("2024-01-01 00:00", "400")}
    ELSE IF path[1] = "Ring_3"
         THEN {LoggerFile("2024-01-01 00:05", "400"), LoggerFile("2024-01-01 00:05", "410")}
         ELSE {LoggerFile("2024-01-01 00:05", "400")}

FetchOutcomes(path) ==
    {[kind |-> "saved", file |-> f] : f \in RemoteFiles(path)}
        \cup {[kind |-> "failed", file |-> EmptyFile], [kind |-> "raised", file |-> EmptyFile]}

\* gdown.download(url, file_name, quiet=False): the disk after the call
gdown_download(d, path, outcome) ==
    IF outcome.kind = "saved"
    THEN [p \in DOMAIN d \cup {path} |-> IF p = path THEN outcome.file ELSE d[p]]
    ELSE d

\* The downloads of one ring, in order, up to the first one that raises.
RECURSIVE DownloadRing(_, _, _, _)
DownloadRing(d, fetch, paths, outcomes) ==
    IF paths = <<>> THEN [disk |-> d, fetch |-> fetch, raised |-> FALSE]
    ELSE LET path == Head(paths)
             o == outcomes[path]
             fetched == [fetch EXCEPT ![path] = o.kind]
         IN  IF o.kind = "raised" THEN [disk |-> d, fetch |-> fetched, raised |-> TRUE]
             ELSE DownloadRing(gdown_download(d, path, o), fetched, Tail(paths), outcomes)

\* The loader download_and_load_all_data calls for a ring besides the CO2 one.
AuxLoaderOf_next_ring(ring) ==
    CASE ring = "Ring_5" -> "trh"
      [] ring = "Ring_3" -> "wind"
      [] ring = "Ring_6" -> "rain"
      [] OTHER -> "none"

AuxLoaderOf(ring) ==
    CASE ring = "Ring_4" -> "trh"
      [] ring = "Ring_2" -> "wind"
      [] ring = "Ring_5" -> "rain"
      [] OTHER -> "none"

AuxCall(ring, d) ==
    CASE AuxLoaderOf(ring) = "trh" ->
           load_and_process_ring4_temp_rh_data(d, historical_files(ring), recent_file(ring))
      [] AuxLoaderOf(ring) = "wind" ->
           load_and_process_ring2_wind_data(d, historical_files(ring), recent_file(ring))
      [] AuxLoaderOf(ring) = "rain" ->
           load_and_process_ring5_rain_data(d, historical_files(ring), recent_file(ring))
      [] OTHER -> ReturnNone

\* The locals of download_and_load_all_data before its loop; ring is the
\* position of the loop in RingKeys.
NewFrame ==
    [kind |-> "running", ring |-> 1, all_rings_data |-> <<>>,
     ring4_temp_rh_data |-> ReturnNone, ring5_rain_data |-> ReturnNone,
     ring2_wind_data |-> ReturnNone]

\* The tuple download_and_load_all_data returns.
Tuple(f) ==
    [kind |-> "tuple", exc |-> "", df_combined |-> concat(f.all_rings_data),
     ring4_temp_rh_data |-> f.ring4_temp_rh_data,
     ring5_rain_data |-> f.ring5_rain_data,
     ring2_wind_data |-> f.ring2_wind_data]

Raised(exc) ==
    [kind |-> "raise", exc |-> exc, df_combined |-> <<>>,
     ring4_temp_rh_data |-> ReturnNone, ring5_rain_data |-> ReturnNone,
     ring2_wind_data |-> ReturnNone]

\* What is observed of the runs of main(): whether the latest run began with
\* a Refresh click, was served from the cache, or executed the function
\* again; whether the function has been executed, and has returned, since
\* the last Refresh click; how each download of the latest run ended.
FirstLog ==
    [kind |-> "run", refresh |-> FALSE, hit |-> FALSE, started |-> FALSE,
     returned |-> FALSE, repeated |-> FALSE, repeated_after_return |-> FALSE,
     fetch |-> [p \in AllFiles |-> "none"]]

InitApp ==
    /\ pc = "idle"
    /\ disk = << >>
    /\ call = [drive_links |-> drive_links]
    /\ result = NoResult
    /\ cache = NoEntry
    /\ session_state = FreshSession
    /\ frame = NoFrame
    /\ log = FirstLog
    /\ widgets = NoWidgets
    /\ page = NoPage

\* st.cache_data.clear() leaves no entry; without_clear leaves the store as it is.
cache_data_clear_without_clear(store) == store

cache_data_clear(store) == NoEntry

\* The value st.cache_data keeps of a call that returned.
cache_data_store(value) == value

\* download_and_load_all_data(drive_links) behind st.cache_data: a stored
\* value is returned without running the function, else the function starts.
CallCached(store, refresh) ==
    IF store # NoEntry
    THEN /\ result' = store
         /\ pc' = "idle"
         /\ frame' = NoFrame
         /\ log' = [log EXCEPT !.refresh = refresh, !.hit = TRUE, !.repeated = FALSE,
                               !.repeated_after_return = FALSE,
                               !.started = IF refresh THEN FALSE ELSE @,
                               !.returned = IF refresh THEN FALSE ELSE @,
                               !.fetch = [p \in AllFiles |-> "none"]]
    ELSE /\ result' = NoResult
         /\ pc' = "download"
         /\ frame' = NewFrame
         /\ log' = [log EXCEPT !.refresh = refresh, !.hit = FALSE,
                               !.repeated = ~refresh /\ log.started,
                               !.repeated_after_return = ~refresh /\ log.returned,
                               !.started = TRUE,
                               !.returned = IF refresh THEN FALSE ELSE @,
                               !.fetch = [p \in AllFiles |-> "none"]]

\* A run of main() in which the Refresh Data button was not clicked.
Rerun ==
    /\ pc = "idle"
    /\ cache' = cache
    /\ CallCached(cache, FALSE)
    /\ UNCHANGED <<disk, call, session_state, widgets, page>>

\* A run of main() started by a click on Refresh Data.
RefreshClick ==
    /\ pc = "idle"
    /\ cache' = cache_data_clear(cache)
    /\ session_state' = [session_state EXCEPT !.force_rerun = ~session_state.force_rerun]
    /\ CallCached(cache', TRUE)
    /\ UNCHANGED <<disk, call, widgets, page>>

\* The call ends with an exception: main() stops and nothing is stored.
Abort(exc) ==
    /\ pc' = "idle"
    /\ frame' = NoFrame
    /\ result' = Raised(exc)
    /\ UNCHANGED cache

\* One iteration of `for ring, files in drive_links.items()`.
RingStep ==
    /\ pc = "download"
    /\ LET ring == RingKeys[frame.ring]
       IN  \E outcomes \in [{RingFiles(ring)[j] : j \in DOMAIN RingFiles(ring)}
                                -> UNION {FetchOutcomes(p) : p \in AllFiles}] :
             /\ \A p \in DOMAIN outcomes : outcomes[p] \in FetchOutcomes(p)
             /\ LET dl == DownloadRing(disk, log.fetch, RingFiles(ring), outcomes)
                    ring_data == load_and_process_ring_data(ring, dl.disk,
                                     historical_files(ring), recent_file(ring))
                    aux == AuxCall(ring, dl.disk)
                IN  /\ disk' = dl.disk
                    /\ log' = [log EXCEPT !.fetch = dl.fetch]
                    /\ IF dl.raised THEN Abort("FileURLRetrievalError")
                       ELSE IF ring_data.kind = "raise" THEN Abort(ring_data.exc)
                       ELSE IF aux.kind = "raise" THEN Abort(aux.exc)
                       ELSE /\ frame' =
                                 [frame EXCEPT
                                    !.ring = @ + 1,
                                    !.all_rings_data =
                                        IF ring_data.kind = "DataFrame"
                                        THEN Append(@, ring_data.df) ELSE @,
                                    !.ring4_temp_rh_data =
                                        IF AuxLoaderOf(ring) = "trh" THEN aux ELSE @,
                                    !.ring2_wind_data =
                                        IF AuxLoaderOf(ring) = "wind" THEN aux ELSE @,
                                    !.ring5_rain_data =
                                        IF AuxLoaderOf(ring) = "rain" THEN aux ELSE @]
                            /\ pc' = IF frame.ring = Len(RingKeys) THEN "concat" ELSE "download"
                            /\ UNCHANGED <<result, cache>>
    /\ UNCHANGED <<call, session_state, widgets, page>>

\* pd.concat(all_rings_data, ignore_index=True) and the return; pd.concat
\* raises ValueError on an empty list.
Combine ==
    /\ pc = "concat"
    /\ IF frame.all_rings_data = <<>>
       THEN /\ Abort("ValueError")
            /\ log' = log
       ELSE /\ cache' = cache_data_store(Tuple(frame))
            /\ result' = Tuple(frame)
            /\ pc' = "idle"
            /\ frame' = NoFrame
            /\ log' = [log EXCEPT !.returned = TRUE]
    /\ UNCHANGED <<disk, call, session_state, widgets, page>>

NextApp == Rerun \/ RefreshClick \/ RingStep \/ Combine

SpecApp == InitApp /\ [][NextApp]_vars

(***************************************************************************)
(* Vocabulary of the properties of the application.                        *)
(***************************************************************************)
\* main() is between two runs and holds the tuple the call gave it.
HoldsTuple == pc = "idle" /\ result.kind = "tuple"

\* The latest run of main() executed download_and_load_all_data to its end.
Executed == pc = "idle" /\ result.kind \in {"tuple", "raise"} /\ ~log.hit

RingSet == {RingKeys[k] : k \in DOMAIN RingKeys}

\* What the CO2 loader makes of the files of a ring as they are on disk.
Co2Of(ring) ==
    load_and_process_ring_data(ring, disk, historical_files(ring), recent_file(ring))

Absent(ring) == Co2Of(ring).kind = "None"

RowsOfRing(df, ring) == SelectSeq(df, LAMBDA row : row.Rings = ring)

(***************************************************************************)
(* C12: the tuple download_and_load_all_data returns holds, in its CO2     *)
(* series, the points of every ring whose CO2 loader was not Absent and no *)
(* others, and three auxiliary series that are exactly what the T/RH       *)
(* loader returned for the files of Ring_4, the rain loader for the files  *)
(* of Ring_5 and the wind loader for the files of Ring_2.                  *)
(***************************************************************************)
C12_CombinedSeriesAndAuxiliaries ==
    HoldsTuple =>
        /\ \A ring \in RingSet :
              RowsOfRing(result.df_combined, ring) =
                  IF Absent(ring) THEN <<>> ELSE Co2Of(ring).df
        /\ \A i \in 1..Len(result.df_combined) : result.df_combined[i].Rings \in RingSet
        /\ result.ring4_temp_rh_data =
              load_and_process_ring4_temp_rh_data(disk, historical_files("Ring_4"),
                                                  recent_file("Ring_4"))
        /\ result.ring5_rain_data =
              load_and_process_ring5_rain_data(disk, historical_files("Ring_5"),
                                               recent_file("Ring_5"))
        /\ result.ring2_wind_data =
              load_and_process_ring2_wind_data(disk, historical_files("Ring_2"),
                                               recent_file("Ring_2"))

\* Ring_1 is Absent; Ring_2 and Ring_3 both have a point at 00:05 and both
\* points are in the CO2 series; all three auxiliary series are there, the
\* T/RH one with the historical and the recent point of Ring_4, while the CO2
\* series has no point of Ring_6 to align them with.
C12_Witness ==
    /\ HoldsTuple
    /\ ~log.hit
    /\ Absent("Ring_1")
    /\ Absent("Ring_6")
    /\ \E i, j \in 1..Len(result.df_combined) :
          /\ result.df_combined[i].Rings = "Ring_2"
          /\ result.df_combined[j].Rings = "Ring_3"
          /\ result.df_combined[i].TIMESTAMP = result.df_combined[j].TIMESTAMP
    /\ result.ring4_temp_rh_data.kind = "DataFrame"
    /\ Len(result.ring4_temp_rh_data.df) = 2
    /\ result.ring5_rain_data.kind = "DataFrame"
    /\ result.ring2_wind_data.kind = "DataFrame"

\* Every download of the run was attempted.
FetchedEveryFile == \A p \in AllFiles : log.fetch[p] \in {"saved", "failed"}

FetchedNothing == \A p \in AllFiles : log.fetch[p] = "none"

(***************************************************************************)
(* C13 as claimed: download_and_load_all_data is executed at most once     *)
(* between two consecutive Refresh clicks, later runs of main() reusing    *)
(* the memoized result without fetching; the run a Refresh click starts    *)
(* fetches every file of every ring again.                                 *)
(***************************************************************************)
C13_ExecutedOncePerRefresh ==
    /\ ~log.repeated
    /\ (pc = "idle" /\ log.hit) => FetchedNothing
    /\ (pc = "idle" /\ log.refresh) => (~log.hit /\ FetchedEveryFile)

(***************************************************************************)
(* C13 as amended: a call of download_and_load_all_data that returned is   *)
(* memoized: until the next Refresh click no run of main() executes the    *)
(* function again, each gets the stored tuple and fetches nothing.  A call *)
(* that raised stored nothing, so the function is executed again only      *)
(* after calls that raised.  A Refresh click empties the store for all     *)
(* rings and channels: the run it starts is never served from the store,   *)
(* and if its call returns it has fetched every file of every ring.        *)
(***************************************************************************)
C13_ReturnedCallIsMemoized ==
    /\ ~log.repeated_after_return
    /\ (pc = "idle" /\ log.hit) =>
          /\ log.returned
          /\ ~log.refresh
          /\ result = cache
          /\ result.kind = "tuple"
          /\ FetchedNothing
    /\ (pc = "idle" /\ log.refresh) => ~log.hit
    /\ (pc = "idle" /\ ~log.hit /\ result.kind = "tuple") =>
          (FetchedEveryFile /\ cache = result)
    /\ (pc = "idle" /\ result.kind = "raise") => cache = NoEntry

\* After a Refresh click whose call returned with the newer Ring_3 file, a
\* later run of main() is served the stored tuple and fetches nothing.
C13_Witness ==
    /\ pc = "idle"
    /\ log.hit
    /\ session_state.force_rerun
    /\ disk[recent_file("Ring_3")] = LoggerFile("2024-01-01 00:05", "410")
    /\ \E i \in 1..Len(result.df_combined) :
          result.df_combined[i].Rings = "Ring_3" /\ result.df_combined[i].CO2_Avg = 410

\* The disk without the files whose download failed in the latest run.
FetchedDisk == [p \in {q \in DOMAIN disk : log.fetch[q] # "failed"} |-> disk[p]]

FrameRows(r) == IF r.kind = "DataFrame" THEN r.df ELSE <<>>

(***************************************************************************)
(* C16: in a run of download_and_load_all_data, a file whose fetch failed  *)
(* in that run contributes no points to the run's result, even when a      *)
(* local file of that name is left on disk by an earlier run: the CO2      *)
(* points of every ring are those its loader yields without such files.    *)
(***************************************************************************)
C16_FailedFetchContributesNothing ==
    (Executed /\ result.kind = "tuple") =>
        \A ring \in RingSet :
            RowsOfRing(result.df_combined, ring) =
                FrameRows(load_and_process_ring_data(ring, FetchedDisk,
                              historical_files(ring), recent_file(ring)))

\* The rings present in the CO2 series, in drive_links order.
RemainingRings == SelectSeq(RingKeys, LAMBDA ring : ~Absent(ring))

\* No download and no loader raised in the latest run.
NothingRaisedBeforeConcat ==
    /\ \A p \in AllFiles : log.fetch[p] # "raised"
    /\ \A ring \in RingSet : Co2Of(ring).kind # "raise" /\ AuxCall(ring, disk).kind # "raise"

(***************************************************************************)
(* C17: download_and_load_all_data tolerates Absent CO2 results: whatever  *)
(* subset of the rings is Absent, all of them included, the call returns,  *)
(* its CO2 series is the rows of the remaining rings in drive_links order, *)
(* and the auxiliary loaders of Ring_4, Ring_5 and Ring_2 have been called *)
(* on those rings' files even when the ring's CO2 result is Absent.        *)
(***************************************************************************)
C17_AbsentRingsTolerated ==
    (Executed /\ NothingRaisedBeforeConcat) =>
        /\ result.kind = "tuple"
        /\ result.df_combined =
              concat([k \in 1..Len(RemainingRings) |-> Co2Of(RemainingRings[k]).df])
        /\ result.ring4_temp_rh_data = AuxCall("Ring_4", disk)
        /\ result.ring5_rain_data = AuxCall("Ring_5", disk)
        /\ result.ring2_wind_data = AuxCall("Ring_2", disk)

(***************************************************************************)
(* What main() renders from the tuple it holds: the raw and the moving-    *)
(* average frames behind the two charts, the rows of the summary           *)
(* statistics, and the CSV downloads.  The widget values are those the     *)
(* user has set when the run starts.                                       *)
(*                                                                         *)
(* A moving average is kept exact, as the window's sum over its length;    *)
(* an undefined aggregate (NaN) has length 0.  sort_values keeps rows of   *)
(* equal TIMESTAMP in their input order and puts NaT rows last.            *)
(***************************************************************************)
MinutesPerDay == 1440

\* Series.dt.date and Series.dt.time of a parsed timestamp
dt_date(t) == t \div MinutesPerDay
dt_time(t) == t % MinutesPerDay

\* (col.dt.date >= date_range[0]) & (col.dt.date <= date_range[-1]); a NaT
\* row compares False on both sides.
in_date_range(t, date_range) ==
    /\ t # NaT
    /\ dt_date(t) >= date_range[1]
    /\ dt_date(t) <= date_range[Len(date_range)]

\* (col.dt.time >= start_time) & (col.dt.time <= end_time)
in_time_range(t, start_time, end_time) ==
    /\ t # NaT
    /\ dt_time(t) >= start_time
    /\ dt_time(t) <= end_time

\* Row a sorts strictly before row b.
SortsBefore(a, b) ==
    a.TIMESTAMP # NaT /\ (b.TIMESTAMP = NaT \/ a.TIMESTAMP < b.TIMESTAMP)

\* The row goes behind every row that does not sort strictly after it.
InsertSorted(sorted, row) ==
    LET after == {k \in 1..Len(sorted) : SortsBefore(row, sorted[k])}
        at == IF after = {} THEN Len(sorted) + 1
              ELSE CHOOSE k \in after : \A j \in after : k <= j
    IN  SubSeq(sorted, 1, at - 1) \o <<row>> \o SubSeq(sorted, at, Len(sorted))

RECURSIVE sort_values(_)
sort_values(df) ==
    IF df = <<>> THEN <<>>
    ELSE InsertSorted(sort_values(SubSeq(df, 1, Len(df) - 1)), df[Len(df)])

\* A rolling aggregate that is NaN.
Undefined == [num |-> 0, den |-> 0]

RECURSIVE SumOf(_)
SumOf(xs) == IF xs = <<>> THEN 0 ELSE Head(xs) + SumOf(Tail(xs))

\* Series.rolling(w).mean() with every window cut to the rows there are
\* (min_periods=1).
rolling_min_periods_1(xs, w, agg) ==
    [i \in 1..Len(xs) |->
        LET win == SubSeq(xs, IF i < w THEN 1 ELSE i - w + 1, i)
        IN  IF \E k \in 1..Len(win) : win[k] = NaN THEN Undefined
            ELSE [num |-> SumOf(win), den |-> IF agg = "mean" THEN Len(win) ELSE 1]]

\* Series.rolling(w).mean() and .sum(): min_periods is the window size, so
\* the first w-1 rows and every window holding a NaN give NaN.
rolling(xs, w, agg) ==
    [i \in 1..Len(xs) |->
        IF i < w THEN Undefined
        ELSE LET win == SubSeq(xs, i - w + 1, i)
             IN  IF \E k \in 1..Len(win) : win[k] = NaN THEN Undefined
                 ELSE [num |-> SumOf(win), den |-> IF agg = "mean" THEN w ELSE 1]]

Column(df, name) == [i \in 1..Len(df) |-> df[i][name]]

\* df.groupby("Rings")["CO2_Avg"].transform(lambda x: x.rolling(w).mean())
groupby_rolling_mean(df, w) ==
    [i \in 1..Len(df) |->
        LET members == SelectSeq([k \in 1..Len(df) |-> k],
                                 LAMBDA k : df[k].Rings = df[i].Rings)
            at == CHOOSE j \in 1..Len(members) : members[j] = i
        IN  rolling([j \in 1..Len(members) |-> df[members[j]].CO2_Avg], w, "mean")[at]]

\* frame[(TIMESTAMP.dt.date >= plot_date_range[0]) & (... <= plot_date_range[-1])]
\* followed by sort_values("TIMESTAMP"); None and an empty frame give the
\* empty pd.DataFrame() the variable was initialised with.
AuxRaw(aux, date_range) ==
    IF aux.kind # "DataFrame" \/ aux.df = <<>> THEN <<>>
    ELSE sort_values(SelectSeq(aux.df, LAMBDA row : in_date_range(row.TIMESTAMP, date_range)))

trh_ma(aux, date_range, w) ==
    LET df == AuxRaw(aux, date_range)
        t == rolling(Column(df, "T_C"), w, "mean")
        rh == rolling(Column(df, "RH"), w, "mean")
    IN  [i \in 1..Len(df) |->
            [TIMESTAMP |-> df[i].TIMESTAMP, T_C |-> df[i].T_C, RH |-> df[i].RH,
             T_C_MA |-> t[i], RH_MA |-> rh[i]]]

rain_ma(aux, date_range, w) ==
    LET df == AuxRaw(aux, date_range)
        rain == rolling(Column(df, "Rain_mm"), w, "sum")
    IN  [i \in 1..Len(df) |->
            [TIMESTAMP |-> df[i].TIMESTAMP, Rain_mm |-> df[i].Rain_mm,
             Rain_mm_MA |-> rain[i]]]

wind_ma(aux, date_range, w) ==
    LET df == AuxRaw(aux, date_range)
        speed == rolling(Column(df, "Wind_Speed"), w, "mean")
        dir == rolling(Column(df, "Wind_Dir"), w, "mean")
    IN  [i \in 1..Len(df) |->
            [TIMESTAMP |-> df[i].TIMESTAMP, Wind_Speed |-> df[i].Wind_Speed,
             Wind_Dir |-> df[i].Wind_Dir, Wind_Speed_MA |-> speed[i],
             Wind_Dir_MA |-> dir[i]]]

\* The CO2 rows of the charts: type, rings and plot date range.
df_plot_filtered(df_co2, w) ==
    SelectSeq(df_co2,
        LAMBDA row : /\ (w.co2_type_selection # "All" => row.CO2 = w.co2_type_selection)
                     /\ row.Rings \in w.selected_rings
                     /\ in_date_range(row.TIMESTAMP, w.plot_date_range))

\* The rows with the rolling mean of their ring beside them.
WithCO2AvgMA(df, w) ==
    LET ma == groupby_rolling_mean(df, w)
    IN  [i \in 1..Len(df) |->
            [TIMESTAMP |-> df[i].TIMESTAMP, CO2_Avg |-> df[i].CO2_Avg,
             Rings |-> df[i].Rings, CO2 |-> df[i].CO2, CO2_Avg_MA |-> ma[i]]]

df_co2_raw(df_co2, w) == sort_values(df_plot_filtered(df_co2, w))

df_co2_ma(df_co2, w) == WithCO2AvgMA(df_co2_raw(df_co2, w), w.rolling_window)

\* df_co2['TIMESTAMP'].min().date() raises on NaT: no row with a timestamp.
NoTimestamp(df_co2) == \A i \in 1..Len(df_co2) : df_co2[i].TIMESTAMP = NaT

\* (CO2 == "eCO2") & (CO2_Avg < 380), the rows ~(...) removes; NaN < 380 is
\* False.  The any_type form drops the test of the category.
below_threshold_any_type(row) == row.CO2_Avg # NaN /\ row.CO2_Avg < 380

below_threshold(row) == row.CO2 = "eCO2" /\ row.CO2_Avg # NaN /\ row.CO2_Avg < 380

\* The CO2 rows of the statistics: rings, type, stats date range, time of
\* day, then the threshold; for "Rolling Average" they are sorted and given
\* the rolling mean of their ring.
df_stats_filtered(df_co2, w) ==
    LET kept == SelectSeq(df_co2,
                    LAMBDA row : /\ row.Rings \in w.selected_rings
                                 /\ (w.co2_type_selection # "All"
                                        => row.CO2 = w.co2_type_selection)
                                 /\ in_date_range(row.TIMESTAMP, w.stats_date_range)
                                 /\ in_time_range(row.TIMESTAMP, w.start_time, w.end_time)
                                 /\ ~below_threshold(row))
    IN  IF w.stat_source = "Rolling Average"
        THEN WithCO2AvgMA(sort_values(kept), w.rolling_window)
        ELSE kept

stat_column(w) == IF w.stat_source = "Rolling Average" THEN "CO2_Avg_MA" ELSE "CO2_Avg"

\* df[stat_column].isna() of one row
StatIsNa(row, w) ==
    IF w.stat_source = "Rolling Average" THEN row.CO2_Avg_MA = Undefined
    ELSE row.CO2_Avg = NaN

\* groupby("Rings")[stat_column] mean: per ring, the sum of the values that
\* are not NaN over their count (times the window for rolling means).
df_stats(df, w) ==
    [ring \in {df[i].Rings : i \in 1..Len(df)} |->
        LET rows == SelectSeq(df, LAMBDA row : row.Rings = ring /\ ~StatIsNa(row, w))
        IN  IF rows = <<>> THEN Undefined
            ELSE IF w.stat_source = "Rolling Average"
                 THEN [num |-> SumOf([i \in 1..Len(rows) |-> rows[i].CO2_Avg_MA.num]),
                       den |-> Len(rows) * w.rolling_window]
                 ELSE [num |-> SumOf(Column(rows, "CO2_Avg")), den |-> Len(rows)]]

\* st.secrets["password"]
correct_pw == "secret"

\* frame[[columns]].dropna() of the moving-average exports
ma_co2(df) ==
    LET rows == SelectSeq(df, LAMBDA row : row.TIMESTAMP # NaT /\ row.CO2_Avg_MA # Undefined)
    IN  [i \in 1..Len(rows) |->
            [TIMESTAMP |-> rows[i].TIMESTAMP, Rings |-> rows[i].Rings,
             CO2_Avg_MA |-> rows[i].CO2_Avg_MA]]

ma_wind(df) ==
    LET rows == SelectSeq(df, LAMBDA row : /\ row.TIMESTAMP # NaT
                                           /\ row.Wind_Speed_MA # Undefined
                                           /\ row.Wind_Dir_MA # Undefined)
    IN  [i \in 1..Len(rows) |->
            [TIMESTAMP |-> rows[i].TIMESTAMP, Wind_Speed_MA |-> rows[i].Wind_Speed_MA,
             Wind_Dir_MA |-> rows[i].Wind_Dir_MA]]

ma_rain(df) ==
    LET rows == SelectSeq(df, LAMBDA row : row.TIMESTAMP # NaT /\ row.Rain_mm_MA # Undefined)
    IN  [i \in 1..Len(rows) |->
            [TIMESTAMP |-> rows[i].TIMESTAMP, Rain_mm_MA |-> rows[i].Rain_mm_MA]]

ma_trh(df) ==
    LET rows == SelectSeq(df, LAMBDA row : /\ row.TIMESTAMP # NaT
                                           /\ row.T_C_MA # Undefined
                                           /\ row.RH_MA # Undefined)
    IN  [i \in 1..Len(rows) |->
            [TIMESTAMP |-> rows[i].TIMESTAMP, T_C_MA |-> rows[i].T_C_MA,
             RH_MA |-> rows[i].RH_MA]]

\* if password == correct_pw; the when_entered form takes any text.
password_accepted_when_entered(password) == password # ""

password_accepted(password) == password = correct_pw

\* One st.download_button: the file it offers and the rows of its CSV.
Download(name, kind, rows) == [file_name |-> name, kind |-> kind, rows |-> rows]

Offer(shown, download) == IF shown THEN <<download>> ELSE <<>>

\* The buttons of the download section, in page order.
download_buttons(pg, password) ==
    IF ~password_accepted(password) THEN <<>>
    ELSE Offer(pg.df_co2_raw # <<>>, Download("raw_co2.csv", "raw", pg.df_co2_raw))
         \o Offer(pg.wind_raw # <<>>, Download("raw_wind.csv", "raw", pg.wind_raw))
         \o Offer(pg.rain_raw # <<>>, Download("raw_rain.csv", "raw", pg.rain_raw))
         \o Offer(pg.trh_raw # <<>>, Download("raw_temp_rh.csv", "raw", pg.trh_raw))
         \o Offer(pg.df_co2_ma # <<>>, Download("ma_co2.csv", "ma", ma_co2(pg.df_co2_ma)))
         \o Offer(pg.wind_ma # <<>>, Download("ma_wind.csv", "ma", ma_wind(pg.wind_ma)))
         \o Offer(pg.rain_ma # <<>>, Download("ma_rain.csv", "ma", ma_rain(pg.rain_ma)))
         \o Offer(pg.trh_ma # <<>>, Download("ma_temp_rh.csv", "ma", ma_trh(pg.trh_ma)))

\* The page before the download section is reached.
Charts(tuple, w) ==
    [kind |-> "page", exc |-> "",
     trh_raw |-> AuxRaw(tuple.ring4_temp_rh_data, w.plot_date_range),
     rain_raw |-> AuxRaw(tuple.ring5_rain_data, w.plot_date_range),
     wind_raw |-> AuxRaw(tuple.ring2_wind_data, w.plot_date_range),
     df_co2_raw |-> df_co2_raw(tuple.df_combined, w),
     trh_ma |-> trh_ma(tuple.ring4_temp_rh_data, w.plot_date_range, w.rolling_window),
     rain_ma |-> rain_ma(tuple.ring5_rain_data, w.plot_date_range, w.rolling_window),
     wind_ma |-> wind_ma(tuple.ring2_wind_data, w.plot_date_range, w.rolling_window),
     df_co2_ma |-> df_co2_ma(tuple.df_combined, w),
     df_stats_filtered |-> <<>>, stats_shown |-> FALSE, df_stats |-> << >>,
     password |-> "", downloads |-> <<>>]

PageRaised(exc) == [kind |-> "raise", exc |-> exc]

\* The sidebar, the raw chart and the moving-average chart.
RenderCharts ==
    /\ pc = "render"
    /\ IF NoTimestamp(result.df_combined)
       THEN /\ page' = PageRaised("ValueError")
            /\ pc' = "idle"
       ELSE /\ page' = Charts(result, widgets)
            /\ pc' = "stats"
    /\ UNCHANGED <<disk, call, result, cache, session_state, frame, log, widgets>>

\* The statistics section.
RenderStats ==
    /\ pc = "stats"
    /\ LET df == df_stats_filtered(result.df_combined, widgets)
           shown == df # <<>> /\ \E i \in 1..Len(df) : ~StatIsNa(df[i], widgets)
       IN  page' = [page EXCEPT !.df_stats_filtered = df,
                                !.stats_shown = shown,
                                !.df_stats = IF shown THEN df_stats(df, widgets) ELSE << >>]
    /\ pc' = "downloads"
    /\ UNCHANGED <<disk, call, result, cache, session_state, frame, log, widgets>>

\* The download section.
RenderDownloads ==
    /\ pc = "downloads"
    /\ page' = [page EXCEPT !.password = widgets.password,
                            !.downloads = download_buttons(page, widgets.password)]
    /\ pc' = "idle"
    /\ UNCHANGED <<disk, call, result, cache, session_state, frame, log, widgets>>

NextRender == RenderCharts \/ RenderStats \/ RenderDownloads

(***************************************************************************)
(* The tuples and widget values main() is rendered for, in three scopes:   *)
(* auxiliary scope - the three auxiliary series over every sequence, in    *)
(*   any order, of up to MaxPoints points, or missing;                     *)
(* CO2 scope - a CO2 series of an ambient and an elevated ring over every  *)
(*   window and plot range;                                                *)
(* statistics scope - every setting of the rings, type, stats range, time  *)
(*   of day, source and password widgets.                                  *)
(* Every series has unique timestamps, at most one of them NaT, as the     *)
(* loaders leave it.                                                       *)
(***************************************************************************)
MaxPoints == 3
MaxWindow == 3

UniqueTimestamps(df) ==
    \A i, j \in 1..Len(df) : i # j => df[i].TIMESTAMP # df[j].TIMESTAMP

\* 00:00 and 00:05 of the first day, 00:00 of the second, and NaT.
AuxPoints == {[TIMESTAMP |-> t, v |-> v] : t \in {0, 5, MinutesPerDay, NaT}, v \in {1, 2, NaN}}

\* Five points in a row, valued 1 to 5.
RampSeries == [i \in 1..5 |-> [TIMESTAMP |-> 5 * (i - 1), v |-> i]]

AuxSeries == {xs \in SeqsUpTo(AuxPoints, MaxPoints) : UniqueTimestamps(xs)} \cup {RampSeries}

TrhFrame(xs) == [i \in 1..Len(xs) |-> NormalizedRow("trh", "Ring_4", xs[i].TIMESTAMP, <<xs[i].v, 55>>)]
RainFrame(xs) == [i \in 1..Len(xs) |-> NormalizedRow("rain", "Ring_5", xs[i].TIMESTAMP, <<xs[i].v>>)]
WindFrame(xs) == [i \in 1..Len(xs) |-> NormalizedRow("wind", "Ring_2", xs[i].TIMESTAMP, <<xs[i].v, 55>>)]

Co2Frame(ring, xs) ==
    [i \in 1..Len(xs) |-> NormalizedRow("co2", ring, xs[i].TIMESTAMP, <<xs[i].v>>)]

\* Two rings measured at the same three times.
SampleCo2Frame ==
    Co2Frame("Ring_3", <<[TIMESTAMP |-> 0, v |-> 400], [TIMESTAMP |-> 5, v |-> 410],
                         [TIMESTAMP |-> 10, v |-> 400]>>)
        \o Co2Frame("Ring_4", <<[TIMESTAMP |-> 0, v |-> 370], [TIMESTAMP |-> 5, v |-> 400],
                                [TIMESTAMP |-> 10, v |-> 400]>>)

RenderTuple(df_combined, trh, rain, wind) ==
    [kind |-> "tuple", exc |-> "", df_combined |-> df_combined,
     ring4_temp_rh_data |-> trh, ring5_rain_data |-> rain, ring2_wind_data |-> wind]

AuxScopeTuples ==
    {RenderTuple(SampleCo2Frame, ReturnFrame(TrhFrame(xs)), ReturnFrame(RainFrame(xs)),
                 ReturnFrame(WindFrame(xs))) : xs \in AuxSeries}
        \cup {RenderTuple(SampleCo2Frame, ReturnNone, ReturnNone, ReturnNone)}

PairsUpTo(S) == {<<>>} \cup {<<a>> : a \in S} \cup {<<a, b>> : a \in S, b \in S}

AmbientSeries ==
    {xs \in PairsUpTo({[TIMESTAMP |-> t, v |-> v] :
                          t \in {0, 5, MinutesPerDay, NaT}, v \in {400, 410}}) :
        UniqueTimestamps(xs)}

ElevatedSeries ==
    {xs \in PairsUpTo({[TIMESTAMP |-> t, v |-> v] : t \in {0, 5}, v \in {370, 400, NaN}}) :
        UniqueTimestamps(xs)}

Co2ScopeTuples ==
    {RenderTuple(Co2Frame("Ring_3", a) \o Co2Frame("Ring_4", e),
                 ReturnNone, ReturnNone, ReturnNone) :
        a \in AmbientSeries, e \in ElevatedSeries}

\* Both rings at 00:00 and 00:05 of the first day and 00:00 of the second.
StatsSeries(first, second, third) ==
    <<[TIMESTAMP |-> 0, v |-> first], [TIMESTAMP |-> 5, v |-> second],
      [TIMESTAMP |-> MinutesPerDay, v |-> third]>>

StatsScopeTuples ==
    {RenderTuple(Co2Frame("Ring_3", a) \o Co2Frame("Ring_4", e),
                 ReturnNone, ReturnNone, ReturnNone) :
        a \in {StatsSeries(370, 400, 410), StatsSeries(400, 370, 400)},
        e \in {StatsSeries(x, y, z) : x \in {370, 400}, y \in {370, 400}, z \in {400, NaN}}}

DateRanges == {<<0>>, <<0, 1>>, <<1, 1>>}

\* Whole day, from 00:05 on, 00:00 only, and a start after the end.
TimeRanges == {<<0, MinutesPerDay - 1>>, <<5, MinutesPerDay - 1>>, <<0, 0>>, <<5, 0>>}

Widgets(rings, type, plot_range, window, source, stats_range, times, password) ==
    [kind |-> "set", selected_rings |-> rings, co2_type_selection |-> type,
     plot_date_range |-> plot_range, rolling_window |-> window,
     stat_source |-> source, stats_date_range |-> stats_range,
     start_time |-> times[1], end_time |-> times[2], password |-> password]

RingsOf(tuple) == {tuple.df_combined[i].Rings : i \in 1..Len(tuple.df_combined)}

AuxScopeWidgets(tuple) ==
    {Widgets(RingsOf(tuple), "All", range, window, "Raw Data", <<0, 1>>,
             <<0, MinutesPerDay - 1>>, correct_pw) :
        range \in DateRanges, window \in 1..MaxWindow}

Co2ScopeWidgets(tuple) ==
    {Widgets(RingsOf(tuple), "All", range, window, "Raw Data", <<0, 1>>,
             <<0, MinutesPerDay - 1>>, correct_pw) :
        range \in {<<0>>, <<0, 1>>}, window \in 1..MaxWindow}

StatsSources == {<<"Raw Data", 1>>, <<"Rolling Average", 1>>, <<"Rolling Average", 2>>}

StatsScopeWidgets(tuple) ==
    {Widgets(rings, type, <<0, 1>>, source[2], source[1], range, times, password) :
        rings \in SUBSET RingsOf(tuple), type \in {"All", "aCO2", "eCO2"},
        source \in StatsSources, range \in DateRanges, times \in TimeRanges,
        password \in {correct_pw, "guess"}}

\* main() holds the tuple of a call that returned and is about to render it.
InitRender ==
    /\ pc = "render"
    /\ disk = << >>
    /\ call = [drive_links |-> drive_links]
    /\ \/ result \in AuxScopeTuples /\ widgets \in AuxScopeWidgets(result)
       \/ result \in Co2ScopeTuples /\ widgets \in Co2ScopeWidgets(result)
       \/ result \in StatsScopeTuples /\ widgets \in StatsScopeWidgets(result)
    /\ cache = result
    /\ session_state = FreshSession
    /\ frame = NoFrame
    /\ log = NoLog
    /\ page = NoPage

SpecRender == InitRender /\ [][NextRender]_vars

(***************************************************************************)
(* Vocabulary of the properties of the rendered page.                      *)
(***************************************************************************)
\* The charts have been rendered.
Rendered == page.kind = "page"

StrictlyAscending(df) ==
    \A i \in 1..(Len(df) - 1) : df[i].TIMESTAMP # NaT /\ df[i].TIMESTAMP < df[i + 1].TIMESTAMP

Values(df, columns) == {[c \in columns |-> df[i][c]] : i \in 1..Len(df)}

InPlotRange(t) ==
    /\ t # NaT
    /\ dt_date(t) >= Head(widgets.plot_date_range)
    /\ dt_date(t) <= widgets.plot_date_range[Len(widgets.plot_date_range)]

\* The rows of a loader result that fall in the plot date range.
PlotRows(aux, columns) ==
    IF aux.kind # "DataFrame" THEN {}
    ELSE {[c \in columns |-> aux.df[i][c]] : i \in {k \in 1..Len(aux.df) :
                                                      InPlotRange(aux.df[k].TIMESTAMP)}}

\* The aggregate of the w values at i-w+1..i, undefined before the w-th row
\* and when one of the values is.
WindowAggregate(values, i, w, agg) ==
    IF i < w THEN Undefined
    ELSE IF \E k \in (i - w + 1)..i : values[k] = NaN THEN Undefined
    ELSE [num |-> SumOf([k \in 1..w |-> values[i - w + k]]),
          den |-> IF agg = "mean" THEN w ELSE 1]

\* A rendered series is the date-filtered rows in timestamp order, and its
\* aggregate column follows the window rule over those rows.
IsRolled(df, aux, columns, value, aggregate, agg) ==
    /\ StrictlyAscending(df)
    /\ Values(df, columns) = PlotRows(aux, columns)
    /\ \A i \in 1..Len(df) :
          df[i][aggregate] = WindowAggregate(Column(df, value), i, widgets.rolling_window, agg)

RowsOf(df, ring) == SelectSeq(df, LAMBDA row : row.Rings = ring)

(***************************************************************************)
(* C14: the rolling aggregate (mean for T, RH, wind and CO2, sum for rain) *)
(* at position i of the timestamp-sorted, date-filtered series is          *)
(* undefined for i < w-1 (counting from 0) and otherwise the mean or sum   *)
(* of the w values at positions i-w+1..i; for CO2 the window runs over     *)
(* each ring's own rows and never mixes the values of two rings.           *)
(***************************************************************************)
C14_RollingAggregate ==
    Rendered =>
        /\ IsRolled(page.trh_ma, result.ring4_temp_rh_data, {"TIMESTAMP", "T_C", "RH"},
                    "T_C", "T_C_MA", "mean")
        /\ IsRolled(page.trh_ma, result.ring4_temp_rh_data, {"TIMESTAMP", "T_C", "RH"},
                    "RH", "RH_MA", "mean")
        /\ IsRolled(page.rain_ma, result.ring5_rain_data, {"TIMESTAMP", "Rain_mm"},
                    "Rain_mm", "Rain_mm_MA", "sum")
        /\ IsRolled(page.wind_ma, result.ring2_wind_data,
                    {"TIMESTAMP", "Wind_Speed", "Wind_Dir"},
                    "Wind_Speed", "Wind_Speed_MA", "mean")
        /\ IsRolled(page.wind_ma, result.ring2_wind_data,
                    {"TIMESTAMP", "Wind_Speed", "Wind_Dir"},
                    "Wind_Dir", "Wind_Dir_MA", "mean")
        /\ \A ring \in RingsOf(result) :
              IsRolled(RowsOf(page.df_co2_ma, ring),
                       ReturnFrame(SelectSeq(result.df_combined,
                           LAMBDA row : /\ row.Rings = ring
                                        /\ ring \in widgets.selected_rings
                                        /\ (widgets.co2_type_selection # "All"
                                               => row.CO2 = widgets.co2_type_selection))),
                       {"TIMESTAMP", "CO2_Avg", "Rings", "CO2"},
                       "CO2_Avg", "CO2_Avg_MA", "mean")

\* The series 1, 2, 3, 4, 5 with a window of 3: NaN, NaN, 2, 3, 4 as means
\* (6/3, 9/3, 12/3) and NaN, NaN, 6, 9, 12 as sums; beside it two rings whose
\* rows alternate in time order, each with the mean of its own three values.
C14_Witness ==
    /\ Rendered
    /\ widgets.rolling_window = 3
    /\ Column(page.trh_ma, "T_C") = <<1, 2, 3, 4, 5>>
    /\ Column(page.trh_ma, "T_C_MA") =
          <<Undefined, Undefined, [num |-> 6, den |-> 3], [num |-> 9, den |-> 3],
            [num |-> 12, den |-> 3]>>
    /\ Column(page.rain_ma, "Rain_mm_MA") =
          <<Undefined, Undefined, [num |-> 6, den |-> 1], [num |-> 9, den |-> 1],
            [num |-> 12, den |-> 1]>>
    /\ Column(page.df_co2_ma, "Rings") =
          <<"Ring_3", "Ring_4", "Ring_3", "Ring_4", "Ring_3", "Ring_4">>
    /\ Column(page.df_co2_ma, "CO2_Avg_MA") =
          <<Undefined, Undefined, Undefined, Undefined,
            [num |-> 1210, den |-> 3], [num |-> 1170, den |-> 3]>>

\* The download section has been rendered.
DownloadsRendered == Rendered /\ pc = "idle"

NonDecreasing(rows) ==
    \A i \in 1..(Len(rows) - 1) :
        /\ rows[i].TIMESTAMP # NaT
        /\ rows[i + 1].TIMESTAMP # NaT
        /\ rows[i].TIMESTAMP <= rows[i + 1].TIMESTAMP

AggregateColumns ==
    {"CO2_Avg_MA", "Wind_Speed_MA", "Wind_Dir_MA", "Rain_mm_MA", "T_C_MA", "RH_MA"}

NoUndefinedAggregate(rows) ==
    \A i \in 1..Len(rows) :
        \A c \in DOMAIN rows[i] \cap AggregateColumns : rows[i][c] # Undefined

(***************************************************************************)
(* C15: a CSV export, raw or moving-average, of CO2, wind, rain or T/RH,   *)
(* is offered only in a render where the entered password equals the       *)
(* configured secret; the rows of every export offered are in              *)
(* non-decreasing timestamp order, and a moving-average export holds no    *)
(* row with an undefined aggregate.                                        *)
(***************************************************************************)
C15_ExportsGatedAndSorted ==
    DownloadsRendered =>
        /\ page.downloads # <<>> => widgets.password = "secret"
        /\ \A k \in 1..Len(page.downloads) :
              /\ NonDecreasing(page.downloads[k].rows)
              /\ page.downloads[k].kind = "ma" => NoUndefinedAggregate(page.downloads[k].rows)

\* With the right password all eight exports are offered; the wind series
\* came out of time order and with a NaN value, so its raw export is
\* re-ordered and its moving-average export is shorter than the raw one.
C15_Witness ==
    /\ DownloadsRendered
    /\ widgets.password = "secret"
    /\ Len(page.downloads) = 8
    /\ \E i, j \in 1..Len(result.ring2_wind_data.df) :
          /\ i < j
          /\ result.ring2_wind_data.df[j].TIMESTAMP # NaT
          /\ result.ring2_wind_data.df[j].TIMESTAMP < result.ring2_wind_data.df[i].TIMESTAMP
    /\ \E i \in 1..Len(page.wind_raw) : page.wind_raw[i].Wind_Speed = NaN
    /\ Len(page.downloads[2].rows) = 3
    /\ page.downloads[6].file_name = "ma_wind.csv"
    /\ Len(page.downloads[6].rows) = 1

\* The statistics section has been rendered.
StatsRendered == Rendered /\ pc \in {"downloads", "idle"}

\* The five tests a CO2 row of the statistics has to pass.
PassesStatsFilters(row) ==
    /\ row.Rings \in widgets.selected_rings
    /\ widgets.co2_type_selection = "All" \/ row.CO2 = widgets.co2_type_selection
    /\ row.TIMESTAMP # NaT
    /\ dt_date(row.TIMESTAMP) >= Head(widgets.stats_date_range)
    /\ dt_date(row.TIMESTAMP) <= widgets.stats_date_range[Len(widgets.stats_date_range)]
    /\ dt_time(row.TIMESTAMP) >= widgets.start_time
    /\ dt_time(row.TIMESTAMP) <= widgets.end_time
    /\ ~(row.CO2 = "eCO2" /\ row.CO2_Avg # NaN /\ row.CO2_Avg < 380)

Co2Columns == {"TIMESTAMP", "CO2_Avg", "Rings", "CO2"}

(***************************************************************************)
(* C18: the CO2 rows that enter the summary statistics are exactly the     *)
(* rows whose ring is selected, whose category is the selected type unless *)
(* the selection is All, whose date lies in the inclusive stats range,     *)
(* whose time of day lies in the inclusive start-end window, and that are  *)
(* not eCO2 rows with CO2_Avg < 380; aCO2 rows below 380 stay.  With the   *)
(* source Rolling Average the rolling mean is computed per ring over the   *)
(* rows that remain, in time order.                                        *)
(***************************************************************************)
C18_StatsRowsFiltered ==
    StatsRendered =>
        /\ Values(page.df_stats_filtered, Co2Columns) =
              {[c \in Co2Columns |-> result.df_combined[i][c]] :
                  i \in {k \in 1..Len(result.df_combined) :
                            PassesStatsFilters(result.df_combined[k])}}
        /\ Len(page.df_stats_filtered) =
              Cardinality(Values(page.df_stats_filtered, Co2Columns))
        /\ widgets.stat_source = "Rolling Average" =>
              \A ring \in RingsOf(result) :
                  LET rows == RowsOf(page.df_stats_filtered, ring)
                  IN  /\ StrictlyAscending(rows)
                      /\ \A i \in 1..Len(rows) :
                            rows[i].CO2_Avg_MA =
                                WindowAggregate(Column(rows, "CO2_Avg"), i,
                                                widgets.rolling_window, "mean")

\* Rolling Average with a window of 2 over both rings and both days: the
\* 370 of the elevated Ring_4 at 00:05 is left out, so the ring's mean at
\* the second day is taken over 00:00 and the second day (800/2); the 370
\* of the ambient Ring_3 stays.
C18_Witness ==
    /\ StatsRendered
    /\ widgets.stat_source = "Rolling Average"
    /\ widgets.rolling_window = 2
    /\ page.stats_shown
    /\ \E i \in 1..Len(result.df_combined) :
          /\ result.df_combined[i].Rings = "Ring_4"
          /\ result.df_combined[i].TIMESTAMP = 5
          /\ result.df_combined[i].CO2_Avg = 370
    /\ \A i \in 1..Len(page.df_stats_filtered) :
          ~(page.df_stats_filtered[i].Rings = "Ring_4"
              /\ page.df_stats_filtered[i].TIMESTAMP = 5)
    /\ \E i \in 1..Len(page.df_stats_filtered) :
          /\ page.df_stats_filtered[i].Rings = "Ring_4"
          /\ page.df_stats_filtered[i].TIMESTAMP = MinutesPerDay
          /\ page.df_stats_filtered[i].CO2_Avg_MA = [num |-> 800, den |-> 2]
    /\ \E i \in 1..Len(page.df_stats_filtered) :
          /\ page.df_stats_filtered[i].Rings = "Ring_3"
          /\ page.df_stats_filtered[i].CO2_Avg = 370

====
